---- MODULE Spec2Model ----
(***************************************************************************)
(* Model of src/src/hooks/useFinanceData.ts: the two React Query hooks     *)
(* useFinanceData (RPC get_finance_summary with a postings_fbs fallback)   *)
(* and useFinanceBreakdown (transactions ledger).                          *)
(*                                                                         *)
(* Numbers.  A value read from a remote row is a tagged record: a number,  *)
(* null, undefined (a missing field) or a non-numeric value.  The fields   *)
(* of a FinanceSummary are held in hundredths (PctDenom per unit), so the  *)
(* fallback ratios 0.08, 0.02, 0.03 and 0.05 are exact; a percentage is    *)
(* the exact fraction num/den.  IEEE rounding is not modelled.             *)
(* The ledger rows of useFinanceBreakdown have no ratios and stay in       *)
(* whole units.                                                            *)
(*                                                                         *)
(* filters.sku, filters.region and filters.dateType only parametrise the   *)
(* requests; the replies are chosen by the environment, so they are left   *)
(* out of the state.                                                       *)
(***************************************************************************)
EXTENDS Integers, Sequences, FiniteSets

VARIABLES
    filters,     \* useFilters().filters as of the latest render
    fPc,         \* useFinanceData queryFn: "idle" | "rpc" | "postings" | "done"
    fFilters,    \* the filters the running queryFn closed over
    fLog,        \* fetch events of the current queryFn execution
    fRpc,        \* what supabase.rpc settled with
    fPost,       \* what the postings_fbs query settled with
    fResult,     \* what the queryFn returned or threw
    bPc,         \* useFinanceBreakdown queryFn: "idle" | "ledger" | "done"
    bFilters,
    bLog,
    bLedger,     \* what the transactions query settled with
    bResult

vars == <<filters, fPc, fFilters, fLog, fRpc, fPost, fResult,
          bPc, bFilters, bLog, bLedger, bResult>>

fVars == <<fPc, fFilters, fLog, fRpc, fPost, fResult>>
bVars == <<bPc, bFilters, bLog, bLedger, bResult>>

----------------------------------------------------------------------------
(* Bounds *)

\* longest postings_fbs result the environment returns
MaxRows == 2

\* longest transactions result the environment returns (the query asks for
\* at most 100)
MaxLedger == 2

----------------------------------------------------------------------------
(* Remote values and their coercion *)

Num(n) == [t |-> "num", v |-> n]
Null == [t |-> "null", v |-> 0]
Undefined == [t |-> "undef", v |-> 0]
Junk == [t |-> "junk", v |-> 0]

\* lib/format toNumber: null, missing and non-numeric values give 0
toNumber(x) == IF x.t = "num" THEN x.v ELSE 0

\* the `|| 0` that follows every toNumber call of the summary paths
OrZero(n) == IF n = 0 THEN 0 ELSE n

Abs(n) == IF n < 0 THEN -n ELSE n

\* hundredths per unit: 0.08 is 8 / PctDenom
PctDenom == 100

DeliveryPct == 8
ReturnsPct == 2
AdsPct == 3
ServicesPct == 5

\* a whole number of units, in hundredths
Units(n) == n * PctDenom

----------------------------------------------------------------------------
(* Filters *)

Missing == ""

DateValues == {Missing, "2025-08-01"}

FilterStates == [dateFrom : DateValues, dateTo : DateValues]

\* a guard that forgets dateTo
FinanceEnabledFromOnly(f) == f.dateFrom # Missing

\* enabled: !!filters.dateFrom && !!filters.dateTo  (useFinanceData)
FinanceEnabled(f) == f.dateFrom # Missing /\ f.dateTo # Missing

\* enabled: !!filters.dateFrom && !!filters.dateTo  (useFinanceBreakdown)
BreakdownEnabled(f) == f.dateFrom # Missing /\ f.dateTo # Missing

----------------------------------------------------------------------------
(* Category table *)

CategoryKeys == <<"sales", "commissions", "delivery", "returns", "ads", "services">>

CATEGORY_COLORS ==
    [sales |-> "#10b981", commissions |-> "#ef4444", delivery |-> "#f59e0b",
     returns |-> "#8b5cf6", ads |-> "#06b6d4", services |-> "#84cc16"]

\* the labels are Russian in the source; transliterated here
CATEGORY_LABELS ==
    [sales |-> "Prodazhi", commissions |-> "Komissii", delivery |-> "Dostavka",
     returns |-> "Vozvraty", ads |-> "Reklama", services |-> "Uslugi"]

----------------------------------------------------------------------------
(* Replies of the three remote calls *)

NoReply == [kind |-> "none", data |-> <<>>, err |-> ""]
OkReply(rows) == [kind |-> "ok", data |-> rows, err |-> ""]
\* the client resolved with {data: null, error}
ErrorReply(e) == [kind |-> "error", data |-> <<>>, err |-> e]
\* the awaited promise rejected
RejectReply(e) == [kind |-> "reject", data |-> <<>>, err |-> e]

SeqsUpTo(S, n) == UNION {[1..k -> S] : k \in 0..n}

\* `{}`: every field read from it is undefined
EmptyRow ==
    [total_sales |-> Undefined, total_commissions |-> Undefined,
     total_delivery |-> Undefined, total_returns |-> Undefined,
     total_ads |-> Undefined, total_services |-> Undefined,
     total_income |-> Undefined, total_expenses |-> Undefined,
     net_profit |-> Undefined]

----------------------------------------------------------------------------
(* useFinanceData: the primary mapping *)

\* const result = data?.[0] || {}
FirstRow(data) == IF Len(data) = 0 THEN EmptyRow ELSE data[1]

PrimarySummary(data) ==
    LET result == FirstRow(data) IN
    [sales |-> Units(OrZero(toNumber(result.total_sales))),
     commissions |-> Units(OrZero(toNumber(result.total_commissions))),
     delivery |-> Units(OrZero(toNumber(result.total_delivery))),
     returns |-> Units(OrZero(toNumber(result.total_returns))),
     ads |-> Units(OrZero(toNumber(result.total_ads))),
     services |-> Units(OrZero(toNumber(result.total_services))),
     totalIncome |-> Units(OrZero(toNumber(result.total_income))),
     totalExpenses |-> Units(OrZero(toNumber(result.total_expenses))),
     netProfit |-> Units(OrZero(toNumber(result.net_profit)))]

----------------------------------------------------------------------------
(* The category list, built the same way on both paths *)

\* an amount without Math.abs
CategoryAmountSigned(key, value) == value

\* const amount = key === 'sales' ? value : Math.abs(value)
CategoryAmount(key, value) == IF key = "sales" THEN value ELSE Abs(value)

\* percentage: total > 0 ? (amount / total) * 100 : 0, as a fraction
Percentage(amount, total) ==
    IF total > 0 THEN [num |-> amount * 100, den |-> total]
                 ELSE [num |-> 0, den |-> 1]

\* key in CATEGORY_COLORS && value !== 0
Emitted(summary, key) == summary[key] # 0

\* percentages taken of totalIncome alone
PushCategoriesOfIncome(summary) ==
    LET total == summary.totalIncome
        keys == SelectSeq(CategoryKeys, LAMBDA k : Emitted(summary, k))
    IN  [i \in 1..Len(keys) |->
            LET amount == CategoryAmount(keys[i], summary[keys[i]]) IN
            [category |-> CATEGORY_LABELS[keys[i]],
             amount |-> amount,
             percentage |-> Percentage(amount, total),
             color |-> CATEGORY_COLORS[keys[i]]]]

PushCategories(summary) ==
    LET total == summary.totalIncome + summary.totalExpenses
        keys == SelectSeq(CategoryKeys, LAMBDA k : Emitted(summary, k))
    IN  [i \in 1..Len(keys) |->
            LET amount == CategoryAmount(keys[i], summary[keys[i]]) IN
            [category |-> CATEGORY_LABELS[keys[i]],
             amount |-> amount,
             percentage |-> Percentage(amount, total),
             color |-> CATEGORY_COLORS[keys[i]]]]

RECURSIVE InsertByAmount(_, _)
\* x goes behind every element whose amount is not smaller (the sort is stable)
InsertByAmount(x, s) ==
    IF s = <<>> THEN <<x>>
    ELSE IF s[1].amount >= x.amount THEN <<s[1]>> \o InsertByAmount(x, Tail(s))
    ELSE <<x>> \o s

RECURSIVE SortByAmountDesc(_)
\* categories.sort((a, b) => b.amount - a.amount)
SortByAmountDesc(s) ==
    IF s = <<>> THEN <<>>
    ELSE InsertByAmount(s[Len(s)], SortByAmountDesc(SubSeq(s, 1, Len(s) - 1)))

BuildCategories(summary) == SortByAmountDesc(PushCategories(summary))

----------------------------------------------------------------------------
(* useFinanceData: the fallback aggregation *)

RECURSIVE TotalSales(_)
\* postingsData?.reduce((sum, item) => sum + price * quantity, 0) || 0
TotalSales(rows) ==
    IF rows = <<>> THEN 0
    ELSE TotalSales(SubSeq(rows, 1, Len(rows) - 1))
         + OrZero(toNumber(rows[Len(rows)].price))
           * OrZero(toNumber(rows[Len(rows)].quantity))

RECURSIVE TotalCommissionsSigned(_)
\* a commission total without Math.abs
TotalCommissionsSigned(rows) ==
    IF rows = <<>> THEN 0
    ELSE TotalCommissionsSigned(SubSeq(rows, 1, Len(rows) - 1))
         + OrZero(toNumber(rows[Len(rows)].commission_amount))

RECURSIVE TotalCommissions(_)
\* postingsData?.reduce((sum, item) => sum + Math.abs(commission), 0) || 0
TotalCommissions(rows) ==
    IF rows = <<>> THEN 0
    ELSE TotalCommissions(SubSeq(rows, 1, Len(rows) - 1))
         + Abs(OrZero(toNumber(rows[Len(rows)].commission_amount)))

\* totalSales * 0.08 and the like, in hundredths
Ratio(totalSales, pct) == (Units(totalSales) * pct) \div PctDenom

\* a netProfit that subtracts the commissions only
FallbackSummaryNetOfCommissions(rows) ==
    LET totalSales == OrZero(TotalSales(rows))
        totalCommissions == OrZero(TotalCommissions(rows))
        totalDelivery == Ratio(totalSales, DeliveryPct)
        totalReturns == Ratio(totalSales, ReturnsPct)
        totalAds == Ratio(totalSales, AdsPct)
        totalServices == Ratio(totalSales, ServicesPct)
        totalExpenses == Units(totalCommissions) + totalDelivery + totalReturns
                         + totalAds + totalServices
    IN  [sales |-> Units(totalSales),
         commissions |-> Units(totalCommissions),
         delivery |-> totalDelivery,
         returns |-> totalReturns,
         ads |-> totalAds,
         services |-> totalServices,
         totalIncome |-> Units(totalSales),
         totalExpenses |-> totalExpenses,
         netProfit |-> Units(totalSales) - Units(totalCommissions)]

FallbackSummary(rows) ==
    LET totalSales == OrZero(TotalSales(rows))
        totalCommissions == OrZero(TotalCommissions(rows))
        totalDelivery == Ratio(totalSales, DeliveryPct)
        totalReturns == Ratio(totalSales, ReturnsPct)
        totalAds == Ratio(totalSales, AdsPct)
        totalServices == Ratio(totalSales, ServicesPct)
        totalExpenses == Units(totalCommissions) + totalDelivery + totalReturns
                         + totalAds + totalServices
    IN  [sales |-> Units(totalSales),
         commissions |-> Units(totalCommissions),
         delivery |-> totalDelivery,
         returns |-> totalReturns,
         ads |-> totalAds,
         services |-> totalServices,
         totalIncome |-> Units(totalSales),
         totalExpenses |-> totalExpenses,
         netProfit |-> Units(totalSales) - totalExpenses]

----------------------------------------------------------------------------
(* useFinanceData: what the queryFn settles with *)

ZeroSummary ==
    [sales |-> 0, commissions |-> 0, delivery |-> 0, returns |-> 0, ads |-> 0,
     services |-> 0, totalIncome |-> 0, totalExpenses |-> 0, netProfit |-> 0]

NoResult == [kind |-> "none", err |-> "", summary |-> ZeroSummary, categories |-> <<>>]

Returned(summary) ==
    [kind |-> "ok", err |-> "", summary |-> summary,
     categories |-> BuildCategories(summary)]

Thrown(e) == [kind |-> "error", err |-> e, summary |-> ZeroSummary, categories |-> <<>>]

\* a try block that also throws when the call returned no row
PrimaryFailedOrNoRows(reply) == reply.kind # "ok" \/ reply.data = <<>>

\* the try block is left for the catch block: `if (error) throw error`, or the
\* awaited call rejected
PrimaryFailed(reply) == reply.kind # "ok"

\* return { summary, categories } of the try block
PrimaryResult(reply) == Returned(PrimarySummary(reply.data))

\* a catch block that throws the rpc error when the postings_fbs query fails
FallbackResultRethrowsRpc(rpcReply, postReply) ==
    IF postReply.kind # "ok" THEN Thrown(rpcReply.err)
    ELSE Returned(FallbackSummary(postReply.data))

\* the catch block after the postings_fbs query settled: `throw postingsError`
\* (or the rejection), else the summary rebuilt from the rows
FallbackResult(rpcReply, postReply) ==
    IF postReply.kind # "ok" THEN Thrown(postReply.err)
    ELSE Returned(FallbackSummary(postReply.data))

----------------------------------------------------------------------------
(* useFinanceBreakdown: the row mapping *)

Today == "today"

\* a mapping whose commissions keep the sign of the amount
MapLedgerRowSignedCommissions(item) ==
    [date_msk |-> IF item.operation_date # Missing THEN item.operation_date ELSE Today,
     posting_number |-> IF item.posting_number # Missing THEN item.posting_number
                        ELSE "N/A",
     sales |-> IF toNumber(item.amount) > 0 THEN toNumber(item.amount) ELSE 0,
     commissions |-> IF toNumber(item.amount) < 0 THEN toNumber(item.amount) ELSE 0,
     delivery |-> 0,
     returns |-> 0,
     ads |-> 0,
     services |-> 0,
     net_profit |-> OrZero(toNumber(item.amount)),
     operation_type |-> IF item.operation_type_name # Missing
                        THEN item.operation_type_name
                        ELSE IF item.operation_type # Missing THEN item.operation_type
                        ELSE "N/A"]

MapLedgerRow(item) ==
    [date_msk |-> IF item.operation_date # Missing THEN item.operation_date ELSE Today,
     posting_number |-> IF item.posting_number # Missing THEN item.posting_number
                        ELSE "N/A",
     sales |-> IF toNumber(item.amount) > 0 THEN toNumber(item.amount) ELSE 0,
     commissions |-> IF toNumber(item.amount) < 0 THEN Abs(toNumber(item.amount))
                     ELSE 0,
     delivery |-> 0,
     returns |-> 0,
     ads |-> 0,
     services |-> 0,
     net_profit |-> OrZero(toNumber(item.amount)),
     operation_type |-> IF item.operation_type_name # Missing
                        THEN item.operation_type_name
                        ELSE IF item.operation_type # Missing THEN item.operation_type
                        ELSE "N/A"]

\* (data || []).map(...)
MapLedger(data) == [i \in 1..Len(data) |-> MapLedgerRow(data[i])]

NoRows == [kind |-> "none", err |-> "", rows |-> <<>>]

\* a queryFn that swallows the error and returns no rows
BreakdownResultSwallows(reply) ==
    IF reply.kind # "ok" THEN [kind |-> "ok", err |-> "", rows |-> <<>>]
    ELSE [kind |-> "ok", err |-> "", rows |-> MapLedger(reply.data)]

\* `if (error) throw error` (or the rejection), else the mapped rows
BreakdownResult(reply) ==
    IF reply.kind # "ok" THEN [kind |-> "error", err |-> reply.err, rows |-> <<>>]
    ELSE [kind |-> "ok", err |-> "", rows |-> MapLedger(reply.data)]

----------------------------------------------------------------------------
(* Fetch events *)

Issue(call, f) == [ev |-> "issue", call |-> call, from |-> f.dateFrom, to |-> f.dateTo]
Settle(call, reply, f) ==
    [ev |-> IF reply.kind = "ok" THEN "ok" ELSE "fail", call |-> call,
     from |-> f.dateFrom, to |-> f.dateTo]

----------------------------------------------------------------------------
(* Actions *)

\* a render with other filters
SetFilters ==
    /\ \E f \in FilterStates : f # filters /\ filters' = f
    /\ UNCHANGED <<fVars, bVars>>

\* React Query runs the queryFn of useFinanceData: the rpc call is awaited
StartFinance ==
    /\ fPc \in {"idle", "done"}
    /\ FinanceEnabled(filters)
    /\ fPc' = "rpc"
    /\ fFilters' = filters
    /\ fLog' = <<Issue("rpc", filters)>>
    /\ fRpc' = NoReply
    /\ fPost' = NoReply
    /\ fResult' = NoResult
    /\ UNCHANGED <<filters, bVars>>

\* a queryFn that calls the rpc again after a failure instead of falling back
RpcSettlesRetries(replies) ==
    /\ fPc = "rpc"
    /\ \E reply \in replies :
        /\ fRpc' = reply
        /\ IF PrimaryFailed(reply)
           THEN /\ fPc' = "rpc"
                /\ fLog' = fLog \o <<Settle("rpc", reply, fFilters),
                                     Issue("rpc", fFilters)>>
                /\ fResult' = fResult
           ELSE /\ fPc' = "done"
                /\ fLog' = Append(fLog, Settle("rpc", reply, fFilters))
                /\ fResult' = PrimaryResult(reply)
    /\ UNCHANGED <<filters, fFilters, fPost, bVars>>

\* supabase.rpc settles: the try block returns, or the catch block builds the
\* postings_fbs query and awaits it
RpcSettles(replies) ==
    /\ fPc = "rpc"
    /\ \E reply \in replies :
        /\ fRpc' = reply
        /\ IF PrimaryFailed(reply)
           THEN /\ fPc' = "postings"
                /\ fLog' = fLog \o <<Settle("rpc", reply, fFilters),
                                     Issue("postings_fbs", fFilters)>>
                /\ fResult' = fResult
           ELSE /\ fPc' = "done"
                /\ fLog' = Append(fLog, Settle("rpc", reply, fFilters))
                /\ fResult' = PrimaryResult(reply)
    /\ UNCHANGED <<filters, fFilters, fPost, bVars>>

\* the postings_fbs query settles: the catch block throws or returns
PostingsSettles(replies) ==
    /\ fPc = "postings"
    /\ \E reply \in replies :
        /\ fPost' = reply
        /\ fLog' = Append(fLog, Settle("postings_fbs", reply, fFilters))
        /\ fResult' = FallbackResult(fRpc, reply)
    /\ fPc' = "done"
    /\ UNCHANGED <<filters, fFilters, fRpc, bVars>>

\* React Query runs the queryFn of useFinanceBreakdown
StartBreakdown ==
    /\ bPc \in {"idle", "done"}
    /\ BreakdownEnabled(filters)
    /\ bPc' = "ledger"
    /\ bFilters' = filters
    /\ bLog' = <<Issue("transactions", filters)>>
    /\ bLedger' = NoReply
    /\ bResult' = NoRows
    /\ UNCHANGED <<filters, fVars>>

\* the transactions query settles
LedgerSettles(replies) ==
    /\ bPc = "ledger"
    /\ \E reply \in replies :
        /\ bLedger' = reply
        /\ bLog' = Append(bLog, Settle("transactions", reply, bFilters))
        /\ bResult' = BreakdownResult(reply)
    /\ bPc' = "done"
    /\ UNCHANGED <<filters, bFilters, fVars>>

----------------------------------------------------------------------------
(* What the environment may answer *)

\* rows of get_finance_summary: every field numeric, null, missing or not a
\* number; the totals need not agree with the categories
RpcRows ==
    [total_sales : {Null, Junk, Num(-2), Num(0), Num(3)},
     total_commissions : {Null, Num(-2), Num(0), Num(2)},
     total_delivery : {Null, Num(1)},
     total_returns : {Num(0), Num(-1)},
     total_ads : {Undefined, Num(1)},
     total_services : {Junk, Num(1)},
     total_income : {Null, Num(0), Num(1), Num(3)},
     total_expenses : {Null, Num(-3), Num(6)},
     net_profit : {Null, Num(-3), Num(5)}]

RpcFailures == {ErrorReply("rpcError"), RejectReply("rpcRejected")}

RpcReplies == {OkReply(<<r>>) : r \in RpcRows} \cup {OkReply(<<>>)} \cup RpcFailures

\* rows of postings_fbs: select('price, quantity, commission_amount')
PostingsRows ==
    [price : {Null, Num(-1), Num(3), Num(100)},
     quantity : {Junk, Num(1), Num(2)},
     commission_amount : {Null, Num(-10), Num(5)}]

PostingsFailures == {ErrorReply("postingsError"), RejectReply("postingsRejected")}

PostingsReplies ==
    {OkReply(rows) : rows \in SeqsUpTo(PostingsRows, MaxRows)} \cup PostingsFailures

\* the text columns of a transactions row, present or not
LedgerTexts ==
    {[operation_date |-> "2025-08-02", posting_number |-> "P-1",
      operation_type_name |-> "Sale", operation_type |-> "op"],
     [operation_date |-> "2025-08-02", posting_number |-> "P-1",
      operation_type_name |-> Missing, operation_type |-> "op"],
     [operation_date |-> Missing, posting_number |-> Missing,
      operation_type_name |-> "Sale", operation_type |-> Missing],
     [operation_date |-> Missing, posting_number |-> Missing,
      operation_type_name |-> Missing, operation_type |-> Missing]}

LedgerRows ==
    {[amount |-> a, operation_date |-> x.operation_date,
      posting_number |-> x.posting_number,
      operation_type_name |-> x.operation_type_name,
      operation_type |-> x.operation_type] :
        a \in {Null, Junk, Num(-50), Num(0), Num(30)}, x \in LedgerTexts}

LedgerFailures == {ErrorReply("ledgerError"), RejectReply("ledgerRejected")}

LedgerReplies ==
    {OkReply(rows) : rows \in SeqsUpTo(LedgerRows, MaxLedger)} \cup LedgerFailures

\* one reply of each shape, for the runs where the two hooks and the filters
\* interleave
SampleRpcRow ==
    [total_sales |-> Num(3), total_commissions |-> Num(-2), total_delivery |-> Null,
     total_returns |-> Num(0), total_ads |-> Num(1), total_services |-> Junk,
     total_income |-> Num(3), total_expenses |-> Num(3), net_profit |-> Num(0)]

SamplePosting == [price |-> Num(100), quantity |-> Num(2), commission_amount |-> Num(-10)]

SampleEntry ==
    [amount |-> Num(-50), operation_date |-> "2025-08-02", posting_number |-> "P-1",
     operation_type_name |-> Missing, operation_type |-> "op"]

FlowRpcReplies == {OkReply(<<SampleRpcRow>>), OkReply(<<>>)} \cup RpcFailures

FlowPostingsReplies == {OkReply(<<SamplePosting>>), OkReply(<<>>)} \cup PostingsFailures

FlowLedgerReplies == {OkReply(<<SampleEntry>>), OkReply(<<>>)} \cup LedgerFailures

----------------------------------------------------------------------------
(* Specifications *)

Idle ==
    /\ fPc = "idle"
    /\ fFilters = filters
    /\ fLog = <<>>
    /\ fRpc = NoReply
    /\ fPost = NoReply
    /\ fResult = NoResult
    /\ bPc = "idle"
    /\ bFilters = filters
    /\ bLog = <<>>
    /\ bLedger = NoReply
    /\ bResult = NoRows

\* both hooks mounted, nothing fetched yet, any filter state
Init ==
    /\ filters \in FilterStates
    /\ Idle

\* the two hooks and the filters interleave
Next ==
    \/ SetFilters
    \/ StartFinance
    \/ RpcSettles(FlowRpcReplies)
    \/ PostingsSettles(FlowPostingsReplies)
    \/ StartBreakdown
    \/ LedgerSettles(FlowLedgerReplies)

Spec == Init /\ [][Next]_vars

\* a complete date range
InitComplete ==
    /\ filters = [dateFrom |-> "2025-08-01", dateTo |-> "2025-08-01"]
    /\ Idle

\* useFinanceData alone, over every reply
NextSummary ==
    \/ StartFinance
    \/ RpcSettles(RpcReplies)
    \/ PostingsSettles(PostingsReplies)

SpecSummary == InitComplete /\ [][NextSummary]_vars

\* useFinanceBreakdown alone, over every reply
NextLedger ==
    \/ StartBreakdown
    \/ LedgerSettles(LedgerReplies)

SpecLedger == InitComplete /\ [][NextLedger]_vars

----------------------------------------------------------------------------
(* Vocabulary of the properties *)

\* the queryFn of useFinanceData returned { summary, categories }
FinanceReturned == fPc = "done" /\ fResult.kind = "ok"

ViaPrimary == FinanceReturned /\ fRpc.kind = "ok"

ViaFallback == FinanceReturned /\ fPost.kind = "ok"

\* a remote value read as a number of units: 0 unless it is numeric
Reading(x) == IF x.t = "num" THEN x.v ELSE 0

\* the field of the first remote row, undefined when there is no row
RemoteField(data, name) == IF data = <<>> THEN Undefined ELSE data[1][name]

RemoteName ==
    [sales |-> "total_sales", commissions |-> "total_commissions",
     delivery |-> "total_delivery", returns |-> "total_returns",
     ads |-> "total_ads", services |-> "total_services",
     totalIncome |-> "total_income", totalExpenses |-> "total_expenses",
     netProfit |-> "net_profit"]

SummaryFields == DOMAIN RemoteName

RECURSIVE SumSeq(_)
SumSeq(s) == IF s = <<>> THEN 0 ELSE Head(s) + SumSeq(Tail(s))

\* the numerators of the percentages, which share one denominator
PctSum(cats) == SumSeq([i \in 1..Len(cats) |-> cats[i].percentage.num])

PctDen(cats) == IF cats = <<>> THEN 1 ELSE cats[1].percentage.den

IssuesOf(log) == {i \in DOMAIN log : log[i].ev = "issue"}

IssuesTo(log, call) == {i \in IssuesOf(log) : log[i].call = call}

RangeComplete(f) == f.dateFrom # Missing /\ f.dateTo # Missing

----------------------------------------------------------------------------
(* C1 *)

\* C1 as stated: every returned summary, from either path, has
\* netProfit = totalIncome - totalExpenses.
C1_NetProfitIdentityEveryPath ==
    FinanceReturned =>
        fResult.summary.netProfit
            = fResult.summary.totalIncome - fResult.summary.totalExpenses

\* C1 amended: a summary of the fallback path has netProfit = totalIncome -
\* totalExpenses; a summary of the primary path carries the remote row's
\* net_profit, total_income and total_expenses as read (0 when not numeric or
\* when there is no row), whether or not they agree.
C1_NetProfitIdentityFallback ==
    /\ ViaFallback =>
        fResult.summary.netProfit
            = fResult.summary.totalIncome - fResult.summary.totalExpenses
    /\ ViaPrimary =>
        \A k \in {"netProfit", "totalIncome", "totalExpenses"} :
            fResult.summary[k]
                = PctDenom * Reading(RemoteField(fRpc.data, RemoteName[k]))

C1_Witness ==
    /\ ViaFallback
    /\ fResult.summary.commissions > 0
    /\ fResult.summary.delivery > 0
    /\ fResult.summary.netProfit > 0

----------------------------------------------------------------------------
(* C2 *)

\* C2: the queryFn of useFinanceData throws only if the rpc call and the
\* postings_fbs query both failed, and then it throws the error of the
\* postings_fbs query; if the rpc call failed and the postings_fbs query
\* succeeded it returns { summary, categories }; the rpc error is never what it
\* throws.
C2_FailsOnlyIfBothFail ==
    fPc = "done" =>
        /\ fResult.kind \in {"ok", "error"}
        /\ fResult.kind = "error" =>
            /\ fRpc.kind \in {"error", "reject"}
            /\ fPost.kind \in {"error", "reject"}
            /\ fResult.err = fPost.err
        /\ (fRpc.kind \in {"error", "reject"} /\ fPost.kind = "ok") =>
            fResult.kind = "ok"
        /\ fResult.err \notin {r.err : r \in RpcFailures}

C2_Witness ==
    /\ fPc = "done"
    /\ fRpc.kind = "error"
    /\ fPost.kind = "ok"
    /\ fResult.kind = "ok"
    /\ fResult.summary.sales = 200 * PctDenom

----------------------------------------------------------------------------
(* C3 *)

\* C3: in one execution of the queryFn of useFinanceData the rpc call is issued
\* first and exactly once, the postings_fbs query is issued only right after the
\* rpc call settled with a failure and never after it succeeded, a fetch is
\* issued only when every earlier one has settled, and at most two fetches are
\* issued.
C3_PrimaryThenFallback ==
    /\ Cardinality(IssuesOf(fLog)) <= 2
    /\ fPc # "idle" =>
        /\ Cardinality(IssuesTo(fLog, "rpc")) = 1
        /\ fLog[1].ev = "issue" /\ fLog[1].call = "rpc"
    /\ \A j \in IssuesTo(fLog, "postings_fbs") :
        /\ j > 1
        /\ fLog[j - 1].call = "rpc" /\ fLog[j - 1].ev = "fail"
        /\ \A i \in DOMAIN fLog : ~(fLog[i].call = "rpc" /\ fLog[i].ev = "ok")
    /\ \A j \in IssuesOf(fLog) : \A i \in IssuesOf(fLog) :
        i < j => \E k \in DOMAIN fLog :
            i < k /\ k < j /\ fLog[k].call = fLog[i].call /\ fLog[k].ev # "issue"
    /\ fRpc.kind = "ok" => IssuesTo(fLog, "postings_fbs") = {}
    /\ IssuesOf(fLog) = IssuesTo(fLog, "rpc") \cup IssuesTo(fLog, "postings_fbs")

C3_Witness ==
    /\ fPc = "done"
    /\ Len(fLog) = 4
    /\ fLog[3].ev = "issue"
    /\ fLog[3].call = "postings_fbs"

----------------------------------------------------------------------------
(* C4 *)

\* C4: when the transactions query of useFinanceBreakdown fails, the queryFn
\* throws that error: it returns no rows and has issued that one fetch only.
C4_LedgerFailurePropagates ==
    (bPc = "done" /\ bLedger.kind \in {"error", "reject"}) =>
        /\ bResult.kind = "error"
        /\ bResult.err = bLedger.err
        /\ bResult.rows = <<>>
        /\ Cardinality(IssuesOf(bLog)) = 1
        /\ IssuesTo(bLog, "transactions") = {1}
        /\ Len(bLog) = 2

C4_Witness ==
    /\ bPc = "done"
    /\ bLedger.kind = "error"
    /\ bResult.kind = "error"
    /\ bResult.err = "ledgerError"

----------------------------------------------------------------------------
(* C5 *)

----------------------------------------------------------------------------
(* C6 *)

\* C6 as stated: for every returned summary the percentages of the emitted
\* categories sum to at most 100, and they are all 0 when totalIncome +
\* totalExpenses = 0.
C6_PercentagesSumAtMost100 ==
    FinanceReturned =>
        /\ PctSum(fResult.categories) <= 100 * PctDen(fResult.categories)
        /\ fResult.summary.totalIncome + fResult.summary.totalExpenses = 0 =>
            \A i \in DOMAIN fResult.categories :
                fResult.categories[i].percentage.num = 0

\* C6 amended: whenever totalIncome + totalExpenses <= 0 every emitted
\* percentage is 0; for a summary of the fallback path with sales >= 0 the
\* percentages sum to at most 100, and to exactly 100 when totalIncome +
\* totalExpenses > 0.
C6_PercentagesSumFallback ==
    FinanceReturned =>
        LET total == fResult.summary.totalIncome + fResult.summary.totalExpenses
            cats == fResult.categories
        IN  /\ total <= 0 => \A i \in DOMAIN cats : cats[i].percentage.num = 0
            /\ (ViaFallback /\ fResult.summary.sales >= 0) =>
                /\ PctSum(cats) <= 100 * PctDen(cats)
                /\ total > 0 => PctSum(cats) = 100 * PctDen(cats)

C6_Witness ==
    /\ ViaFallback
    /\ fResult.summary.sales > 0
    /\ Len(fResult.categories) = 6
    /\ PctSum(fResult.categories) = 100 * PctDen(fResult.categories)

----------------------------------------------------------------------------
(* C7 *)

\* C7 as stated: every emitted category of every returned summary has
\* amount >= 0 and 0 <= percentage <= 100.
C7_AmountAndPercentageInRange ==
    FinanceReturned =>
        \A i \in DOMAIN fResult.categories :
            LET c == fResult.categories[i] IN
            /\ c.amount >= 0
            /\ c.percentage.num >= 0
            /\ c.percentage.num <= 100 * c.percentage.den

\* C7 amended: every emitted category other than sales has amount > 0, and the
\* sales category has the summary's sales as it is, sign included; so when
\* sales >= 0 every amount is positive and every percentage is >= 0, and on the
\* fallback path with sales >= 0 every percentage is also <= 100.
C7_AmountMagnitudeExceptSales ==
    FinanceReturned =>
        \A i \in DOMAIN fResult.categories :
            LET c == fResult.categories[i] IN
            /\ c.category # CATEGORY_LABELS.sales => c.amount > 0
            /\ c.category = CATEGORY_LABELS.sales => c.amount = fResult.summary.sales
            /\ fResult.summary.sales >= 0 =>
                /\ c.amount > 0
                /\ c.percentage.num >= 0
            /\ (ViaFallback /\ fResult.summary.sales >= 0) =>
                c.percentage.num <= 100 * c.percentage.den

C7_Witness ==
    /\ ViaPrimary
    /\ fResult.summary.sales > 0
    /\ fResult.summary.commissions < 0
    /\ fResult.summary.totalIncome + fResult.summary.totalExpenses > 0
    /\ \E i \in DOMAIN fResult.categories :
        /\ fResult.categories[i].category = CATEGORY_LABELS.commissions
        /\ fResult.categories[i].amount = -fResult.summary.commissions

----------------------------------------------------------------------------
(* C8 *)

\* price * quantity of each row, and |commission_amount| of each row, in units
RowSales(rows) ==
    [i \in 1..Len(rows) |-> Reading(rows[i].price) * Reading(rows[i].quantity)]

RowCommissions(rows) ==
    [i \in 1..Len(rows) |->
        IF Reading(rows[i].commission_amount) < 0
        THEN -Reading(rows[i].commission_amount)
        ELSE Reading(rows[i].commission_amount)]

\* C8: on the fallback path sales = totalIncome = sum of price * quantity,
\* commissions = sum of |commission_amount|, delivery, returns, ads and services
\* are 8%, 2%, 3% and 5% of sales, and totalExpenses is the sum of the five; the
\* rows [{price: 100, quantity: 2, commission_amount: -10}] give 200, 10, 16, 4,
\* 6, 10, totalExpenses 46 and netProfit 154.  (Fields are in hundredths.)
C8_FallbackAggregation ==
    ViaFallback =>
        LET S == SumSeq(RowSales(fPost.data))
            C == SumSeq(RowCommissions(fPost.data))
            s == fResult.summary
        IN  /\ s.sales = 100 * S
            /\ s.totalIncome = 100 * S
            /\ s.commissions = 100 * C
            /\ s.delivery = 8 * S
            /\ s.returns = 2 * S
            /\ s.ads = 3 * S
            /\ s.services = 5 * S
            /\ s.totalExpenses
                = s.commissions + s.delivery + s.returns + s.ads + s.services
            /\ fPost.data = <<[price |-> Num(100), quantity |-> Num(2),
                               commission_amount |-> Num(-10)]>> =>
                s = [sales |-> 20000, commissions |-> 1000, delivery |-> 1600,
                     returns |-> 400, ads |-> 600, services |-> 1000,
                     totalIncome |-> 20000, totalExpenses |-> 4600,
                     netProfit |-> 15400]

C8_Witness ==
    /\ ViaFallback
    /\ fPost.data = <<[price |-> Num(100), quantity |-> Num(2),
                       commission_amount |-> Num(-10)]>>
    /\ fResult.summary.totalExpenses = 4600
    /\ fResult.summary.netProfit = 15400

----------------------------------------------------------------------------
(* C9 *)

\* C9: every ledger entry is mapped to sales = amount if amount > 0 else 0,
\* commissions = |amount| if amount < 0 else 0, net_profit = amount, and
\* delivery = returns = ads = services = 0; at most one of sales and commissions
\* is not 0 and sales - commissions = net_profit; amount -50 gives (0, 50, -50)
\* and amount 30 gives (30, 0, 30).
C9_LedgerRowMapping ==
    (bPc = "done" /\ bLedger.kind = "ok") =>
        /\ bResult.kind = "ok"
        /\ Len(bResult.rows) = Len(bLedger.data)
        /\ \A i \in DOMAIN bLedger.data :
            LET a == Reading(bLedger.data[i].amount)
                r == bResult.rows[i]
            IN  /\ r.sales = (IF a > 0 THEN a ELSE 0)
                /\ r.commissions = (IF a < 0 THEN -a ELSE 0)
                /\ r.net_profit = a
                /\ r.delivery = 0 /\ r.returns = 0 /\ r.ads = 0 /\ r.services = 0
                /\ r.sales = 0 \/ r.commissions = 0
                /\ r.sales - r.commissions = r.net_profit
                /\ a = -50 => r.sales = 0 /\ r.commissions = 50 /\ r.net_profit = -50
                /\ a = 30 => r.sales = 30 /\ r.commissions = 0 /\ r.net_profit = 30

C9_Witness ==
    /\ bPc = "done"
    /\ bResult.kind = "ok"
    /\ Len(bResult.rows) = 2
    /\ bLedger.data[1].amount = Num(-50)
    /\ bResult.rows[1].commissions = 50
    /\ bLedger.data[2].amount = Num(30)
    /\ bResult.rows[2].sales = 30

----------------------------------------------------------------------------
(* C10 *)

\* C10: when the rpc call succeeds, the queryFn returns without issuing the
\* postings_fbs query; every summary field whose remote field is null, missing
\* or not a number is 0 and every field is a number; with no row all nine
\* fields are 0 and the category list is empty.
C10_PrimaryCoercion ==
    (fPc = "done" /\ fRpc.kind = "ok") =>
        /\ fResult.kind = "ok"
        /\ fPost = NoReply
        /\ IssuesTo(fLog, "postings_fbs") = {}
        /\ \A k \in SummaryFields :
            /\ fResult.summary[k] \in Int
            /\ RemoteField(fRpc.data, RemoteName[k]).t # "num" =>
                fResult.summary[k] = 0
        /\ fRpc.data = <<>> =>
            /\ \A k \in SummaryFields : fResult.summary[k] = 0
            /\ fResult.categories = <<>>

C10_Witness ==
    /\ ViaPrimary
    /\ fRpc.data # <<>>
    /\ fRpc.data[1].total_commissions = Null
    /\ fRpc.data[1].total_sales = Num(3)
    /\ fResult.summary.commissions = 0
    /\ fResult.summary.sales = 3 * PctDenom

====
